---------------------------- MODULE Spec2Model ----------------------------
(* State-machine model of the privy-auth-demo client.                      *)
(*   src/unnamed/part_000 : client with profile-picture upload             *)
(*                           (variant "upload")                            *)
(*   src/unnamed/part_001 : client without upload (variant "basic")        *)
(*   src/introspect.ts     : the schema introspection script               *)
(* One React commit (state change + the effects it triggers) is one step;  *)
(* every await in an async handler separates two steps.                    *)
EXTENDS Integers, Sequences, FiniteSets, Bags, TLC

VARIABLES
    variant,        \* which client is running: "upload" or "basic"
    ready,          \* usePrivy().ready
    authenticated,  \* usePrivy().authenticated
    backendUser,    \* AuthComponent state backendUser (NoUser = null)
    meData,         \* useQuery(ME_QUERY).data?.me (NoUser = undefined)
    loginH,         \* bag of handleBackendLogin invocations in flight
    issued,         \* loginMutation calls made by effect runs of this session
    logoutH,        \* bag of Sign Out onClick invocations in flight
    uploading,      \* ProfileImageUpload state uploading
    previewUrl,     \* ProfileImageUpload state previewUrl
    uploadH,        \* bag of handleFileChange invocations in flight
    lastLog,        \* last alert()/console.error() text emitted
    script          \* the run of introspect.ts: position, response, output

clientVars == <<variant, ready, authenticated, backendUser, meData, loginH,
                issued, logoutH, uploading, previewUrl, uploadH, lastLog>>

vars == <<clientVars, script>>

authVars == <<variant, ready, authenticated, backendUser, meData, loginH,
              issued, logoutH>>

-----------------------------------------------------------------------------
(* Bounds                                                                  *)

MaxLogins == 2      \* handleBackendLogin invocations in flight at once
MaxLogouts == 1     \* Sign Out handlers in flight at once
MaxUploads == 1     \* handleFileChange invocations of the mounted component
MaxOrphans == 1     \* more invocations, left in flight by unmounted ones

-----------------------------------------------------------------------------
(* Values                                                                  *)

Null == "null"

Variants == {"upload", "basic"}

\* JavaScript truthiness of a string-or-null value.
Truthy(x) == x # Null /\ x # ""

\* JavaScript  x || null
OrNull(x) == IF Truthy(x) THEN x ELSE Null

NoUser == [id |-> Null, displayName |-> Null, profilePictureUrl |-> Null]

IsNull(u) == u = NoUser

UserNames == [u1 |-> "Ann", u2 |-> "Bob"]

UserIds == DOMAIN UserNames

Pics == {Null, "https://x/y.png"}

\* the user records the backend may return
UserRecords ==
    { [id |-> i, displayName |-> UserNames[i], profilePictureUrl |-> p] :
        i \in UserIds, p \in Pics }

\* what getAccessToken() may resolve to
TokenValues == {"tok_abc", "", Null}


-----------------------------------------------------------------------------
(* Bags of handler invocations                                             *)

BagAdd(B, e) == B (+) SetToBag({e})

BagDel(B, e) == B (-) SetToBag({e})

\* the invocations of an earlier provider session are no longer "current"
Retire(B) ==
    LET S == { [r EXCEPT !.cur = FALSE] : r \in BagToSet(B) }
    IN  [ s \in S |-> CopiesIn(s, B) + CopiesIn([s EXCEPT !.cur = TRUE], B) ]

\* the invocations of the component instance now mounted
LiveOnes(B) ==
    [ r \in { x \in BagToSet(B) : x.live } |-> CopiesIn(r, B) ]

\* the component instance the invocations belonged to is gone
Orphan(B) ==
    LET S == { [r EXCEPT !.live = FALSE] : r \in BagToSet(B) }
    IN  [ s \in S |-> CopiesIn(s, B) + CopiesIn([s EXCEPT !.live = TRUE], B) ]

-----------------------------------------------------------------------------
(* AuthComponent: rendering and effects                                    *)

\* useQuery(ME_QUERY, { skip: !backendUser })
MeSkip(b) == IsNull(b)

\* <ProfileImageUpload> is rendered only by the upload client, past the
\* !ready early return, in the authenticated branch, under {backendUser && ...}
Mounted(v, r, a, b) == v = "upload" /\ r /\ a /\ ~IsNull(b)

\* the guard of handleBackendLogin
\* mutant: the guard also holds the effect back while a request of the
\* component is in flight
LoginGuard_InFlightLock(a, b) ==
    a /\ IsNull(b) /\ \A h \in BagToSet(loginH) : ~h.cur
LoginGuard(a, b) == a /\ IsNull(b)

\* The login effect re-runs when one of its dependencies changed in the commit
\* (getAccessToken and loginMutation keep their identity); the invocation it
\* makes passes the guard or returns at once.
LoginEffectFires(a2, b2) ==
    /\ a2 # authenticated \/ b2 # backendUser
    /\ LoginGuard(a2, b2)

\* One commit of AuthComponent with the new provider flags, the new cached
\* user and the new query data; lh and iss are the login invocations and the
\* request count as the step's own code left them.
Commit(r2, a2, b2, md2, lh, iss) ==
    LET newSession == a2 /\ ~authenticated
        lh1 == IF newSession THEN Retire(lh) ELSE lh
        was == Mounted(variant, ready, authenticated, backendUser)
        now == Mounted(variant, r2, a2, b2)
    IN  /\ ready' = r2
        /\ authenticated' = a2
        /\ backendUser' = b2
        /\ meData' = IF MeSkip(b2) THEN NoUser ELSE md2
        /\ issued' = IF newSession THEN 0 ELSE iss
        /\ IF LoginEffectFires(a2, b2)
             THEN /\ BagCardinality(lh1) < MaxLogins
                  /\ loginH' = BagAdd(lh1, [pc |-> "token", cur |-> TRUE,
                                            token |-> Null])
             ELSE loginH' = lh1
        /\ IF now /\ ~was
             THEN \* useState initial values of a fresh instance
                  /\ uploading' = FALSE
                  /\ previewUrl' = OrNull(b2.profilePictureUrl)
                  /\ uploadH' = uploadH
             ELSE IF was /\ ~now
             THEN /\ uploading' = FALSE
                  /\ previewUrl' = Null
                  /\ uploadH' = Orphan(uploadH)
             ELSE UNCHANGED <<uploading, previewUrl, uploadH>>

-----------------------------------------------------------------------------
(* Identity provider (usePrivy)                                            *)

\* the provider SDK finishes initialising, with or without a restored session
PrivyReady(a) ==
    /\ ~ready
    /\ Commit(TRUE, a, backendUser, meData, loginH, issued)
    /\ UNCHANGED <<script, variant, logoutH, lastLog>>

\* the Login button: the provider's login flow completes
ProviderLogin ==
    /\ ready /\ ~authenticated
    /\ Commit(ready, TRUE, backendUser, meData, loginH, issued)
    /\ UNCHANGED <<script, variant, logoutH, lastLog>>

\* the provider session ends without Sign Out
ProviderSessionLost ==
    /\ ready /\ authenticated
    /\ Commit(ready, FALSE, backendUser, meData, loginH, issued)
    /\ UNCHANGED <<script, variant, logoutH, lastLog>>

-----------------------------------------------------------------------------
(* handleBackendLogin                                                      *)

\* mutant: the token test is  accessToken !== null
TokenResolved_NotNull(h, t) ==
    /\ h \in BagToSet(loginH) /\ h.pc = "token"
    /\ IF t # Null
         THEN /\ loginH' = BagAdd(BagDel(loginH, h),
                                  [h EXCEPT !.pc = "request", !.token = t])
              /\ issued' = IF h.cur THEN issued + 1 ELSE issued
         ELSE /\ loginH' = BagDel(loginH, h)
              /\ issued' = issued
    /\ UNCHANGED <<script, variant, ready, authenticated, backendUser, meData, logoutH,
                   uploading, previewUrl, uploadH, lastLog>>

\* await getAccessToken() resolves; a truthy token goes into loginMutation
TokenResolved(h, t) ==
    /\ h \in BagToSet(loginH) /\ h.pc = "token"
    /\ IF Truthy(t)
         THEN /\ loginH' = BagAdd(BagDel(loginH, h),
                                  [h EXCEPT !.pc = "request", !.token = t])
              /\ issued' = IF h.cur THEN issued + 1 ELSE issued
         ELSE /\ loginH' = BagDel(loginH, h)
              /\ issued' = issued
    /\ UNCHANGED <<script, variant, ready, authenticated, backendUser, meData, logoutH,
                   uploading, previewUrl, uploadH, lastLog>>

\* await getAccessToken() rejects: the catch block logs
TokenThrows(h) ==
    /\ h \in BagToSet(loginH) /\ h.pc = "token"
    /\ loginH' = BagDel(loginH, h)
    /\ lastLog' = "Backend login failed"
    /\ UNCHANGED <<script, variant, ready, authenticated, backendUser, meData, issued,
                   logoutH, uploading, previewUrl, uploadH>>

\* mutant: the response is logged but never cached
LoginResolved_NoCache(h, u) ==
    /\ h \in BagToSet(loginH) /\ h.pc = "request"
    /\ loginH' = BagDel(loginH, h)
    /\ UNCHANGED <<ready, authenticated, backendUser, meData, issued,
                   uploading, previewUrl, uploadH>>
    /\ UNCHANGED <<script, variant, logoutH, lastLog>>

\* await loginMutation() resolves with data.login = u (NoUser: no login field)
LoginResolved(h, u) ==
    /\ h \in BagToSet(loginH) /\ h.pc = "request"
    /\ IF ~IsNull(u)
         THEN Commit(ready, authenticated, u, meData, BagDel(loginH, h), issued)
         ELSE /\ loginH' = BagDel(loginH, h)
              /\ UNCHANGED <<ready, authenticated, backendUser, meData, issued,
                             uploading, previewUrl, uploadH>>
    /\ UNCHANGED <<script, variant, logoutH, lastLog>>

\* mutant: the catch block calls handleBackendLogin again
LoginFailed_Retry(h) ==
    /\ h \in BagToSet(loginH) /\ h.pc = "request"
    /\ loginH' = BagAdd(BagDel(loginH, h), [h EXCEPT !.pc = "token", !.token = Null])
    /\ lastLog' = "Backend login failed"
    /\ UNCHANGED <<script, variant, ready, authenticated, backendUser, meData, issued,
                   logoutH, uploading, previewUrl, uploadH>>

\* await loginMutation() rejects (network error or errors payload)
LoginFailed(h) ==
    /\ h \in BagToSet(loginH) /\ h.pc = "request"
    /\ loginH' = BagDel(loginH, h)
    /\ lastLog' = "Backend login failed"
    /\ UNCHANGED <<script, variant, ready, authenticated, backendUser, meData, issued,
                   logoutH, uploading, previewUrl, uploadH>>

-----------------------------------------------------------------------------
(* The "me" query                                                          *)

\* mutant: the upload client has no me-sync effect either
MeResult_NoSync(u) ==
    /\ ~MeSkip(backendUser)
    /\ u.id = backendUser.id
    /\ u # meData
    /\ Commit(ready, authenticated, backendUser, u, loginH, issued)
    /\ UNCHANGED <<script, variant, logoutH, lastLog>>

\* The query delivers a new result while it is not skipped.  The upload client
\* copies it into backendUser (effect on [meData]); the basic client ignores it.
MeResult(u) ==
    /\ ~MeSkip(backendUser)
    /\ u.id = backendUser.id
    /\ u # meData
    /\ Commit(ready, authenticated,
              IF variant = "upload" THEN u ELSE backendUser,
              u, loginH, issued)
    /\ UNCHANGED <<script, variant, logoutH, lastLog>>

-----------------------------------------------------------------------------
(* Sign Out                                                                *)

\* mutant: the basic client follows its comments (backend first)
SignOutCalls_BackendFirstInBasic(v) ==
    IF v = "upload" THEN <<"provider", "backend">>
                    ELSE <<"backend", "provider">>

\* the calls the onClick handler awaits, in program order
SignOutCalls(v) ==
    IF v = "upload" THEN <<"provider", "backend">>
                    ELSE <<"provider", "backend">>

SignOutClick ==
    /\ ready /\ authenticated
    /\ BagCardinality(logoutH) < MaxLogouts
    /\ logoutH' = BagAdd(logoutH, [calls |-> <<SignOutCalls(variant)[1]>>])
    /\ UNCHANGED <<script, variant, ready, authenticated, backendUser, meData, loginH,
                   issued, uploading, previewUrl, uploadH, lastLog>>

\* The awaited call resolves: the handler goes on to its next call, or, past
\* the last one, clears backendUser.  A resolved provider logout makes the
\* provider unauthenticated.
SignOutCallResolved(h) ==
    /\ h \in BagToSet(logoutH)
    /\ LET k == Len(h.calls)
           order == SignOutCalls(variant)
           a2 == IF h.calls[k] = "provider" THEN FALSE ELSE authenticated
           b2 == IF k = Len(order) THEN NoUser ELSE backendUser
       IN  /\ logoutH' = IF k = Len(order)
                           THEN BagDel(logoutH, h)
                           ELSE BagAdd(BagDel(logoutH, h),
                                       [calls |-> Append(h.calls, order[k + 1])])
           /\ Commit(ready, a2, b2, meData, loginH, issued)
    /\ UNCHANGED <<script, variant, lastLog>>

\* the awaited call rejects: the catch block logs and the handler ends
SignOutCallFailed(h) ==
    /\ h \in BagToSet(logoutH)
    /\ logoutH' = BagDel(logoutH, h)
    /\ lastLog' = "Logout failed"
    /\ UNCHANGED <<script, variant, ready, authenticated, backendUser, meData, loginH,
                   issued, uploading, previewUrl, uploadH>>

-----------------------------------------------------------------------------
(* ProfileImageUpload                                                      *)

\* String.prototype.startsWith on strings written as tuples of characters
StartsWith(s, p) == Len(s) >= Len(p) /\ SubSeq(s, 1, Len(p)) = p

ImagePrefix == <<"i", "m", "a", "g", "e", "/">>

\* mutant: the prefix tested is 'image'
IsImageType_NoSlash(t) == StartsWith(t, <<"i", "m", "a", "g", "e">>)

IsImageType(t) == StartsWith(t, ImagePrefix)

MAX_FILE_SIZE == 5 * 1024 * 1024

\* mutant: the comparison is >=
TooLarge_AtLeast(size) == size >= MAX_FILE_SIZE

TooLarge(size) == size > MAX_FILE_SIZE

\* e.target.files?.[0] is undefined
NoFile == [name |-> Null, type |-> <<>>, size |-> 0]

\* the files the user may pick
Files ==
    { [name |-> "a", type |-> ImagePrefix \o <<"j", "p", "e", "g">>,
       size |-> 2 * 1024 * 1024],
      [name |-> "b", type |-> ImagePrefix \o <<"p", "n", "g">>,
       size |-> 5 * 1024 * 1024],
      [name |-> "c", type |-> ImagePrefix \o <<"p", "n", "g">>,
       size |-> 5 * 1024 * 1024 + 1],
      [name |-> "d", type |-> ImagePrefix \o <<"j", "p", "e", "g">>,
       size |-> 10 * 1024 * 1024],
      [name |-> "e", type |-> <<"t", "e", "x", "t", "/", "p", "l", "a", "i", "n">>,
       size |-> 1024],
      [name |-> "f", type |-> <<"a", "p", "p", "/", "p", "d", "f">>,
       size |-> 10 * 1024 * 1024],
      [name |-> "g", type |-> <<>>, size |-> 0],
      [name |-> "h", type |-> <<"i", "m", "a", "g", "e">>, size |-> 1],
      [name |-> "i", type |-> <<"I", "m", "a", "g", "e", "/", "p", "n", "g">>,
       size |-> 1],
      NoFile }

\* reader.result of readAsDataURL(file)
DataUrl(name) == "data:" \o name

\* data.uploadFile.url of an upload response (Null: no url in the response)
UploadUrls == {"https://x/y.png", "", Null}

UploadFileRequest(name) == [op |-> "uploadFile", file |-> name]

\* mutant: the mutation is sent without refetchQueries
UpdateUserRequest_NoRefetch(userId, imageUrl) ==
    [op |-> "updateUser", id |-> userId,
     input |-> [profilePictureUrl |-> imageUrl],
     refetchQueries |-> <<>>]

\* updateUser({ variables: { id: userId, input: { profilePictureUrl } },
\*              refetchQueries: [{ query: ME_QUERY }] })
UpdateUserRequest(userId, imageUrl) ==
    [op |-> "updateUser", id |-> userId,
     input |-> [profilePictureUrl |-> imageUrl],
     refetchQueries |-> <<"me">>]

\* an invocation is dropped once its async body and its reader are both done
Settle(B, h, h2) ==
    IF h2.pc = "done" /\ ~h2.reading THEN BagDel(B, h)
                                     ELSE BagAdd(BagDel(B, h), h2)

\* handleFileChange up to its first await.  The closure keeps the props of the
\* render the event came from; prev records the preview shown at that moment.
HandleFileChange(f) ==
    /\ Mounted(variant, ready, authenticated, backendUser)
    /\ ~uploading
    /\ IF f = NoFile
         THEN UNCHANGED <<uploading, uploadH, lastLog>>
         ELSE IF ~IsImageType(f.type)
         THEN /\ lastLog' = "Please select an image file"
              /\ UNCHANGED <<uploading, uploadH>>
         ELSE IF TooLarge(f.size)
         THEN /\ lastLog' = "File size must be less than 5MB"
              /\ UNCHANGED <<uploading, uploadH>>
         ELSE /\ BagCardinality(LiveOnes(uploadH)) < MaxUploads
              /\ BagCardinality(uploadH) < MaxUploads + MaxOrphans
              /\ uploading' = TRUE
              /\ uploadH' = BagAdd(uploadH,
                    [pc |-> "upload", live |-> TRUE, reading |-> TRUE,
                     failed |-> FALSE,
                     userId |-> backendUser.id,
                     currentImageUrl |-> backendUser.profilePictureUrl,
                     file |-> f.name,
                     prev |-> previewUrl,
                     sent |-> <<UploadFileRequest(f.name)>>])
              /\ UNCHANGED lastLog
    /\ UNCHANGED <<previewUrl>>
    /\ UNCHANGED <<authVars, script>>

\* reader.onloadend: setPreviewUrl(reader.result), the data URL of the file
ReaderLoadEnd(h) ==
    /\ h \in BagToSet(uploadH) /\ h.reading
    /\ uploadH' = Settle(uploadH, h, [h EXCEPT !.reading = FALSE])
    /\ previewUrl' = IF h.live THEN DataUrl(h.file) ELSE previewUrl
    /\ UNCHANGED <<uploading, lastLog>>
    /\ UNCHANGED <<authVars, script>>

\* catch + finally of handleFileChange
CatchUpload(h) ==
    /\ uploadH' = Settle(uploadH, h, [h EXCEPT !.pc = "done", !.failed = TRUE])
    /\ lastLog' = "Failed to upload image"
    /\ previewUrl' = IF h.live THEN OrNull(h.currentImageUrl) ELSE previewUrl
    /\ uploading' = IF h.live THEN FALSE ELSE uploading

\* await uploadFile() resolves with data.uploadFile.url = url
UploadResolved(h, url) ==
    /\ h \in BagToSet(uploadH) /\ h.pc = "upload"
    /\ IF Truthy(url)
         THEN /\ uploadH' = BagAdd(BagDel(uploadH, h),
                    [h EXCEPT !.pc = "update",
                              !.sent = Append(@, UpdateUserRequest(h.userId, url))])
              /\ UNCHANGED <<uploading, previewUrl, lastLog>>
         ELSE CatchUpload(h)
    /\ UNCHANGED <<authVars, script>>

\* uploadFile() fails: with onError set the result carries no data, and the
\* handler throws 'No URL returned from upload'
UploadFailed(h) ==
    /\ h \in BagToSet(uploadH) /\ h.pc = "upload"
    /\ CatchUpload(h)
    /\ UNCHANGED <<authVars, script>>

\* await updateUser() resolves: alert, then finally
UpdateResolved(h) ==
    /\ h \in BagToSet(uploadH) /\ h.pc = "update"
    /\ uploadH' = Settle(uploadH, h, [h EXCEPT !.pc = "done"])
    /\ lastLog' = "Profile picture updated successfully!"
    /\ uploading' = IF h.live THEN FALSE ELSE uploading
    /\ UNCHANGED previewUrl
    /\ UNCHANGED <<authVars, script>>

\* await updateUser() rejects
UpdateFailed(h) ==
    /\ h \in BagToSet(uploadH) /\ h.pc = "update"
    /\ CatchUpload(h)
    /\ UNCHANGED <<authVars, script>>

-----------------------------------------------------------------------------
(* introspect.ts                                                           *)

\* result.errors of a response body: missing, an empty list, a list of errors
ErrorsValues == {"undefined", "[]", "[error]"}

\* if (result.errors): every array is truthy, the empty one too
ErrorsTruthy(e) == e # "undefined"

\* A type of a schema, by its name and the names of its fields.
TypeNames == {"Query", "Mutation", "File", "ProfileFile"}
FieldNames == {"me", "login", "uploadFile", "url"}

\* result.data: introspection data that buildClientSchema accepts (a list of
\* types), or anything else (valid = FALSE), on which it throws
SchemaData ==
    { [valid |-> TRUE,
       types |-> << [name |-> "Mutation", fields |-> <<"login", "uploadFile">>],
                    [name |-> "File", fields |-> <<"url">>] >>],
      [valid |-> TRUE,
       types |-> << [name |-> "Query", fields |-> <<"me">>] >>],
      [valid |-> TRUE,
       types |-> << [name |-> "Mutation", fields |-> <<"uploadFile">>] >>],
      [valid |-> TRUE,
       types |-> << [name |-> "Query", fields |-> <<"me">>],
                    [name |-> "ProfileFile", fields |-> <<"url">>] >>],
      [valid |-> FALSE, types |-> << >>] }

\* The server's answer: response.ok, whether the body parses as JSON, and the
\* errors and data members of the parsed body.
Responses ==
    [ok : BOOLEAN, json : BOOLEAN, errors : ErrorsValues, data : SchemaData]

NoResponse ==
    [ok |-> FALSE, json |-> FALSE, errors |-> "undefined",
     data |-> [valid |-> FALSE, types |-> << >>]]

RECURSIVE FieldLines(_)
FieldLines(fs) ==
    IF fs = << >> THEN << >>
    ELSE <<[kind |-> "field", name |-> Head(fs)]>> \o FieldLines(Tail(fs))

\* printSchema: the SDL text, line by line
RECURSIVE PrintSchema(_)
PrintSchema(types) ==
    IF types = << >> THEN << >>
    ELSE <<[kind |-> "type", name |-> Head(types).name]>>
           \o FieldLines(Head(types).fields)
           \o <<[kind |-> "close", name |-> "}"]>>
           \o PrintSchema(Tail(types))

\* /uploadFile[^\n]*/gi: the lines that mention uploadFile, among FieldNames
\* and TypeNames
UploadFileMatch(sdl) ==
    SelectSeq(sdl, LAMBDA l : l.name = "uploadFile")

\* /type\s+\w*[Ff]ile\w*\s*\{[^}]*\}/gs: the definitions of the types whose
\* name holds File or file, among TypeNames
RECURSIVE FileMatch(_)
FileMatch(types) ==
    IF types = << >> THEN << >>
    ELSE (IF Head(types).name \in {"File", "ProfileFile"}
            THEN PrintSchema(<<Head(types)>>) ELSE << >>)
           \o FileMatch(Tail(types))

\* what the script writes to standard output once the schema is built
SchemaOutput(types) ==
    LET sdl == PrintSchema(types)
        up == UploadFileMatch(sdl)
    IN  << [title |-> "=== Full GraphQL Schema ===", lines |-> sdl],
           [title |-> "=== Looking for uploadFile resolver ===",
            lines |-> IF up # << >> THEN up
                      ELSE <<[kind |-> "text",
                              name |-> "No uploadFile resolver found"]>>],
           [title |-> "=== File-related types ===",
            lines |-> FileMatch(types)] >>

\* the script before its first await
ScriptStart ==
    [pc |-> "fetch", response |-> NoResponse, stdout |-> << >>,
     stderr |-> << >>, exited |-> FALSE, code |-> 0]

\* process.exit(c), or the end of the run with the default status
ScriptExit(s, c) == [s EXCEPT !.pc = "exit", !.exited = TRUE, !.code = c]

\* the catch block
ScriptCatch(s) ==
    ScriptExit([s EXCEPT !.stderr = Append(@, "Error introspecting API:")], 1)

\* fetch rejects
FetchFailed ==
    /\ script.pc = "fetch"
    /\ script' = ScriptCatch(script)
    /\ UNCHANGED clientVars

\* fetch resolves; the script goes on to its next await
FetchResolved(r) ==
    /\ script.pc = "fetch"
    /\ script' = IF ~r.ok
                   THEN [script EXCEPT !.pc = "text", !.response = r,
                           !.stderr = Append(@, "HTTP error! status:")]
                   ELSE [script EXCEPT !.pc = "json", !.response = r]
    /\ UNCHANGED clientVars

\* response.text() settles
TextSettled(throws) ==
    /\ script.pc = "text"
    /\ script' = IF throws THEN ScriptCatch(script)
                 ELSE ScriptExit([script EXCEPT
                                    !.stderr = Append(@, "Response:")], 1)
    /\ UNCHANGED clientVars

\* mutant: the errors member is not looked at
RestOfScript_IgnoreErrors(s) ==
    IF ~s.response.data.valid THEN ScriptCatch(s)
    ELSE ScriptExit([s EXCEPT
                       !.stdout = SchemaOutput(s.response.data.types)], 0)

\* everything after the last await
RestOfScript(s) ==
    IF ErrorsTruthy(s.response.errors)
      THEN ScriptExit([s EXCEPT !.stderr = Append(@, "GraphQL errors:")], 1)
    ELSE IF ~s.response.data.valid THEN ScriptCatch(s)
    ELSE ScriptExit([s EXCEPT
                       !.stdout = SchemaOutput(s.response.data.types)], 0)

\* response.json() settles
JsonSettled(throws) ==
    /\ script.pc = "json"
    /\ script' = IF throws \/ ~script.response.json THEN ScriptCatch(script)
                 ELSE RestOfScript(script)
    /\ UNCHANGED clientVars

-----------------------------------------------------------------------------

Init ==
    /\ variant \in Variants
    /\ ready = FALSE
    /\ authenticated = FALSE
    /\ backendUser = NoUser
    /\ meData = NoUser
    /\ loginH = EmptyBag
    /\ issued = 0
    /\ logoutH = EmptyBag
    /\ uploading = FALSE
    /\ previewUrl = Null
    /\ uploadH = EmptyBag
    /\ lastLog = "none"
    /\ script = ScriptStart

\* The state right after the first backend login of a session succeeded: the
\* upload client shows <ProfileImageUpload> for the first time.  No other user
\* id appears in one mounted lifetime, so one id stands for all.
InitUpload ==
    /\ variant = "upload"
    /\ ready = TRUE
    /\ authenticated = TRUE
    /\ backendUser \in {u \in UserRecords : u.id = "u1"}
    /\ meData = NoUser
    /\ loginH = EmptyBag
    /\ issued = 1
    /\ logoutH = EmptyBag
    /\ uploading = FALSE
    /\ previewUrl = OrNull(backendUser.profilePictureUrl)
    /\ uploadH = EmptyBag
    /\ lastLog = "none"
    /\ script = ScriptStart

\* The script is run from the repository of the upload client; no client is
\* running, its variables keep their initial values.
InitIntrospect == Init /\ variant = "upload"

\* the steps of the provider and of AuthComponent
NextAuth ==
    \/ \E a \in BOOLEAN : PrivyReady(a)
    \/ ProviderLogin
    \/ ProviderSessionLost
    \/ \E h \in BagToSet(loginH) : \E t \in TokenValues : TokenResolved(h, t)
    \/ \E h \in BagToSet(loginH) : TokenThrows(h)
    \/ \E h \in BagToSet(loginH) : \E u \in UserRecords \cup {NoUser} :
          LoginResolved(h, u)
    \/ \E h \in BagToSet(loginH) : LoginFailed(h)
    \/ \E u \in UserRecords : MeResult(u)
    \/ SignOutClick
    \/ \E h \in BagToSet(logoutH) : SignOutCallResolved(h)
    \/ \E h \in BagToSet(logoutH) : SignOutCallFailed(h)

\* the steps of ProfileImageUpload
NextComponent ==
    \/ \E f \in Files : HandleFileChange(f)
    \/ \E h \in BagToSet(uploadH) : ReaderLoadEnd(h)
    \/ \E h \in BagToSet(uploadH) : \E url \in UploadUrls : UploadResolved(h, url)
    \/ \E h \in BagToSet(uploadH) : UploadFailed(h)
    \/ \E h \in BagToSet(uploadH) : UpdateResolved(h)
    \/ \E h \in BagToSet(uploadH) : UpdateFailed(h)

\* one mounted lifetime of ProfileImageUpload: its own steps and the steps of
\* its parent that change its props or unmount it
NextUpload ==
    \/ \E f \in Files : HandleFileChange(f)
    \/ \E h \in BagToSet(uploadH) : ReaderLoadEnd(h)
    \/ \E h \in BagToSet(uploadH) : \E url \in UploadUrls : UploadResolved(h, url)
    \/ \E h \in BagToSet(uploadH) : UploadFailed(h)
    \/ \E h \in BagToSet(uploadH) : UpdateResolved(h)
    \/ \E h \in BagToSet(uploadH) : UpdateFailed(h)
    \/ \E u \in UserRecords : MeResult(u)
    \/ SignOutClick
    \/ \E h \in BagToSet(logoutH) : SignOutCallResolved(h)
    \/ \E h \in BagToSet(logoutH) : SignOutCallFailed(h)
    \/ ProviderSessionLost

\* one run of introspect.ts
NextIntrospect ==
    \/ FetchFailed
    \/ \E r \in Responses : FetchResolved(r)
    \/ \E throws \in BOOLEAN : TextSettled(throws)
    \/ \E throws \in BOOLEAN : JsonSettled(throws)

\* ProfileImageUpload over several mounts: the steps of one mounted lifetime
\* and a new provider login, which shows the component again when the
\* backend user is still cached
NextRemount ==
    \/ NextUpload
    \/ ProviderLogin

Next == NextAuth \/ NextComponent

\* the whole client
Spec == Init /\ [][Next]_vars

\* The provider and AuthComponent alone.  The steps of ProfileImageUpload
\* leave authVars unchanged and no step of NextAuth reads the component's
\* state, so this is the projection of Spec for properties of authVars.
SpecAuth == Init /\ [][NextAuth]_vars

\* ProfileImageUpload unmounted and mounted again while invocations of an
\* earlier instance are still in flight
SpecRemount == InitUpload /\ [][NextRemount]_vars

\* the introspection script, run on its own
SpecIntrospect == InitIntrospect /\ [][NextIntrospect]_vars

\* ProfileImageUpload from its first mount to after its unmount
SpecUpload == InitUpload /\ [][NextUpload]_vars

-----------------------------------------------------------------------------
(* Claims about AuthComponent (checked under SpecAuth)                     *)

\* C1 (as claimed): within one authenticated provider session the effect
\* runs of that session issue at most one login-exchange request.
C1_AtMostOneLoginPerSession == issued <= 1

\* C2 (as claimed): when a Sign Out handler that has issued both logout
\* calls ends, whether its last call resolved or failed, the cached backend
\* user is null.
C2_SignOutAlwaysClears ==
    [][ \A h \in BagToSet(logoutH) :
          (Len(h.calls) = 2 /\ logoutH' = BagDel(logoutH, h))
            => IsNull(backendUser') ]_vars

\* C3: a login exchange that resolves with a user record makes the cached
\* backend user exactly that record, and the "me" query is then not skipped.
C3_LoginSuccessCachesUser ==
    [][ \A h \in BagToSet(loginH) : \A u \in UserRecords :
          (h.pc = "request" /\ h.token = "tok_abc" /\ LoginResolved(h, u))
            => backendUser' = u /\ ~IsNull(backendUser') /\ ~MeSkip(backendUser') ]_vars

\* the scenario of the claim: the exchange returned {id: u1, displayName: Ann}
\* and the query has not delivered yet
C3_Witness ==
    /\ backendUser = [id |-> "u1", displayName |-> "Ann", profilePictureUrl |-> Null]
    /\ meData = NoUser
    /\ ~MeSkip(backendUser)
    /\ issued = 1
    /\ loginH = EmptyBag

\* authenticated, nothing cached, nothing in flight
Limbo ==
    /\ authenticated
    /\ IsNull(backendUser)
    /\ loginH = EmptyBag
    /\ logoutH = EmptyBag

\* C8: when getAccessToken() resolves to null (or to no token at all) the
\* invocation ends without a login-exchange request and without any state
\* change; and from the authenticated, nothing-cached, nothing-in-flight state
\* no step starts another exchange while the provider stays authenticated.
C8_NullTokenDoesNothing ==
    /\ [][ \A h \in BagToSet(loginH) : \A t \in {Null, ""} :
             (h.pc = "token" /\ TokenResolved(h, t))
               => /\ loginH' = BagDel(loginH, h)
                  /\ \A g \in BagToSet(loginH') : CopiesIn(g, loginH') <= CopiesIn(g, loginH)
                  /\ UNCHANGED <<ready, authenticated, backendUser, meData,
                                 issued, logoutH, uploading, previewUrl,
                                 uploadH, lastLog>> ]_vars
    /\ [][ (Limbo /\ authenticated') => (loginH' = EmptyBag /\ IsNull(backendUser')) ]_vars

\* first session, token was null: authenticated, no backend user, no request
\* made, nothing logged, nothing in flight
C8_Witness ==
    /\ Limbo
    /\ issued = 0
    /\ lastLog = "none"

\* C9: a failed login exchange is only logged: no program state changes, the
\* invocation ends, and no invocation is started by the failure; an
\* invocation starts only in a step that changes authenticated or backendUser.
C9_LoginFailureOnlyLogged ==
    /\ [][ \A h \in BagToSet(loginH) :
             (h.pc = "request" /\ LoginFailed(h))
               => /\ loginH' = BagDel(loginH, h)
                  /\ lastLog' = "Backend login failed"
                  /\ UNCHANGED <<ready, authenticated, backendUser, meData,
                                 issued, logoutH, uploading, previewUrl, uploadH>> ]_vars
    /\ [][ (\E g \in BagToSet(loginH') : g.pc = "token" /\ CopiesIn(g, loginH') > CopiesIn(g, loginH))
             => (authenticated' # authenticated \/ backendUser' # backendUser) ]_vars

\* the exchange of this session was made and failed; nothing is cached and
\* nothing is in flight
C9_Witness ==
    /\ Limbo
    /\ issued = 1
    /\ lastLog = "Backend login failed"

OtherVariant(v) == IF v = "upload" THEN "basic" ELSE "upload"

-----------------------------------------------------------------------------
(* Claims about ProfileImageUpload (checked under SpecUpload)              *)

\* "the MIME type starts with image/", stated without the program's test
HasImagePrefix(t) ==
    /\ Len(t) >= 6
    /\ t[1] = "i" /\ t[2] = "m" /\ t[3] = "a" /\ t[4] = "g" /\ t[5] = "e"
    /\ t[6] = "/"

\* the step left every invocation and every request as it was
NoNetworkCall == uploadH' = uploadH /\ uploading' = uploading

\* C4: a selected file whose MIME type does not start with image/ causes no
\* uploadFile and no updateUser request, whatever its size.
C4_NonImageRejected ==
    [][ \A f \in Files \ {NoFile} :
          (HandleFileChange(f) /\ ~HasImagePrefix(f.type))
            => NoNetworkCall /\ lastLog' = "Please select an image file" ]_vars

C4_Witness ==
    /\ lastLog = "Please select an image file"
    /\ uploadH = EmptyBag
    /\ ~uploading

\* C5: a selected file larger than 5,242,880 bytes causes no request,
\* whatever its MIME type; an image of at most 5,242,880 bytes passes the
\* size check and its uploadFile request is issued.
C5_SizeLimit ==
    /\ [][ \A f \in Files \ {NoFile} :
             (HandleFileChange(f) /\ f.size > 5242880) => NoNetworkCall ]_vars
    /\ [][ \A f \in Files \ {NoFile} :
             (HandleFileChange(f) /\ f.size <= 5242880 /\ HasImagePrefix(f.type))
               => /\ uploading'
                  /\ \E h \in BagToSet(uploadH') :
                        /\ h.pc = "upload"
                        /\ h.sent = <<UploadFileRequest(f.name)>>
                        /\ uploadH' = BagAdd(uploadH, h) ]_vars

\* the image of exactly 5,242,880 bytes was accepted, and after it a larger
\* file was rejected
C5_Witness ==
    /\ lastLog = "File size must be less than 5MB"
    /\ \E h \in BagToSet(uploadH) : h.file = "b"

\* the requests an invocation has issued are uploadFile, then at most one
\* updateUser, the latter only past the upload response
SentInOrder(h) ==
    /\ Len(h.sent) \in {1, 2}
    /\ h.sent[1] = UploadFileRequest(h.file)
    /\ h.pc = "upload" => Len(h.sent) = 1
    /\ h.pc = "update" => Len(h.sent) = 2
    /\ Len(h.sent) = 2 => h.sent[2].op = "updateUser"

\* C6 (as claimed): the updateUser request that follows a successful upload
\* carries the id of the backend user cached when it is issued.
C6_IdOfCurrentUser ==
    [][ \A h \in BagToSet(uploadH) : \A url \in UploadUrls :
          (h.pc = "upload" /\ Truthy(url) /\ UploadResolved(h, url))
            => ~IsNull(backendUser) /\ h.userId = backendUser.id ]_vars

\* C6 (amended): when uploadFile resolves with a URL, exactly one updateUser
\* request follows, issued in that step, with the id of the backend user
\* that was cached when the file was selected, an input holding only
\* profilePictureUrl = the returned URL, and a refetch of the "me" query.
C6_UpdateFollowsUpload ==
    /\ [](\A h \in BagToSet(uploadH) : SentInOrder(h))
    /\ [][ \A f \in Files \ {NoFile} :
             (HandleFileChange(f) /\ uploadH' # uploadH)
               => \E h \in BagToSet(uploadH') :
                     /\ uploadH' = BagAdd(uploadH, h)
                     /\ h.userId = backendUser.id ]_vars
    /\ [][ \A h \in BagToSet(uploadH) : \A url \in UploadUrls :
             (h.pc = "upload" /\ Truthy(url) /\ UploadResolved(h, url))
               => \E h2 \in BagToSet(uploadH') :
                     /\ uploadH' = BagAdd(BagDel(uploadH, h), h2)
                     /\ h2.pc = "update"
                     /\ h2.sent =
                          << UploadFileRequest(h.file),
                             [op |-> "updateUser", id |-> h.userId,
                              input |-> [profilePictureUrl |-> url],
                              refetchQueries |-> <<"me">>] >> ]_vars

\* the 2 MB JPEG was uploaded, the response was https://x/y.png, and the
\* updateUser request is in flight
C6_Witness ==
    \E h \in BagToSet(uploadH) :
        /\ h.pc = "update"
        /\ h.file = "a"
        /\ h.sent[2].input.profilePictureUrl = "https://x/y.png"

\* C7 (as claimed): when a failed upload attempt of the mounted component is
\* over (catch block run, reader callback delivered), the preview is the one
\* shown right before the attempt started.
C7_FailureRestoresPreview ==
    [][ \A h \in BagToSet(uploadH) :
          ( /\ h.live
            /\ uploadH' = BagDel(uploadH, h)
            /\ \/ h.pc = "done" /\ h.failed
               \/ h.pc # "done" /\ lastLog' = "Failed to upload image" )
            => previewUrl' = h.prev ]_vars

\* C11: in the upload client every new non-null result of the "me" query
\* overwrites the cached backend user, whatever was cached (last write wins);
\* so right after the refetch that follows a profile update the cached
\* backend user is the latest "me" result.
C11_MeResultOverwrites ==
    [][ \A u \in UserRecords :
          (variant = "upload" /\ ~IsNull(u) /\ MeResult(u))
            => backendUser' = u /\ meData' = u ]_vars

\* the profile update succeeded, the refetch delivered the record with the
\* uploaded picture, and that record is the cached backend user
C11_Witness ==
    /\ lastLog = "Profile picture updated successfully!"
    /\ ~IsNull(meData)
    /\ meData.profilePictureUrl = "https://x/y.png"
    /\ backendUser = meData
    /\ uploadH = EmptyBag

\* the login effect's invocation at its first await
FreshLogin == [pc |-> "token", cur |-> TRUE, token |-> Null]

\* an invocation of the running session that has not finished
InFlight(h) == h \in BagToSet(loginH) /\ h.cur

\* C13: there is no in-flight lock.  A commit that changes a dependency of
\* the login effect and leaves the provider authenticated with no backend
\* user cached starts a new invocation although one of the same session has
\* not resolved, and a truthy token sends that invocation's login request
\* whatever else is in flight.
C13_NoInFlightLock ==
    [][ /\ ( /\ authenticated /\ authenticated'
             /\ backendUser' # backendUser /\ IsNull(backendUser')
             /\ \E h \in BagToSet(loginH) : InFlight(h) )
          => /\ BagCardinality(loginH') = BagCardinality(loginH) + 1
             /\ CopiesIn(FreshLogin, loginH') = CopiesIn(FreshLogin, loginH) + 1
        /\ \A h \in BagToSet(loginH) : \A t \in TokenValues :
             (h.cur /\ Truthy(t) /\ TokenResolved(h, t))
               => /\ issued' = issued + 1
                  /\ BagIn([h EXCEPT !.pc = "request", !.token = t], loginH')
      ]_vars

\* two login requests of one session are in flight at the same time
C13_Witness ==
    /\ authenticated /\ IsNull(backendUser)
    /\ issued = 2
    /\ \E h \in BagToSet(loginH) :
         h.cur /\ h.pc = "request" /\ CopiesIn(h, loginH) >= 2

\* C14: once the provider is unauthenticated and no request is in flight, no
\* backend user is cached, so that a later session starts from an empty cache
\* and issues its own login exchange.
C14_NoUserWithoutSession ==
    (ready /\ ~authenticated /\ loginH = EmptyBag /\ logoutH = EmptyBag)
      => IsNull(backendUser)

\* the run ended in the catch block or in one of the two process.exit(1)
FailingRun == script.exited /\ script.code # 0

\* C12: the script exits with a non-zero status when fetch, response.text(),
\* response.json() or buildClientSchema throws, when the response is not OK
\* and when the body carries an errors member; only otherwise does it end
\* with status 0 and the schema text and the two extracts on standard output;
\* a failing run, and a run that has not ended, has printed nothing there.
C12_ExitBehaviour ==
    LET r == script.response
        fails == \/ ~r.ok
                 \/ ~r.json
                 \/ r.errors # "undefined"
                 \/ ~r.data.valid
                 \/ "Error introspecting API:" \in
                      {script.stderr[i] : i \in DOMAIN script.stderr}
    IN  /\ ~script.exited => script.stdout = << >> /\ script.code = 0
        /\ (script.exited /\ fails) =>
              /\ script.code = 1
              /\ script.stdout = << >>
              /\ script.stderr # << >>
        /\ (script.exited /\ ~fails) =>
              /\ script.code = 0
              /\ script.stderr = << >>
              /\ Len(script.stdout) = 3
              /\ script.stdout[1].lines = PrintSchema(r.data.types)
        /\ FailingRun => script.stdout = << >>

\* a run that got an OK response with an errors member and a valid schema
\* has exited with status 1
C12_Witness ==
    /\ script.exited /\ script.code = 1
    /\ script.response.ok /\ script.response.json
    /\ script.response.errors = "[]"
    /\ script.response.data.valid
    /\ script.stderr = <<"GraphQL errors:">>

\* an upload/update sequence between setUploading(true) and its finally
InProgress(B) ==
    [ r \in { x \in BagToSet(B) : x.pc \in {"upload", "update"} }
        |-> CopiesIn(r, B) ]

\* C15: while ProfileImageUpload is shown, uploading is true exactly while an
\* upload/update sequence is in progress, and at most one such sequence is in
\* flight at any time.
C15_OneUploadInFlight ==
    /\ Mounted(variant, ready, authenticated, backendUser)
         => (uploading <=> InProgress(uploadH) # EmptyBag)
    /\ BagCardinality(InProgress(uploadH)) <= 1

=============================================================================
